---------------------------- MODULE Spec2Model ----------------------------
(***************************************************************************)
(* Model of src/atom_atom_maps.py: the adjacency-list parser, the graph    *)
(* builder, the component decomposer, the label-filtered isomorphism       *)
(* matcher, the combination/reconciliation step and the batch driver main. *)
(*                                                                         *)
(* Conventions.  Node positions are 1-based here (Python's are 0-based);   *)
(* combination paths keep Python's 0-based isomorphism indices.  Python's  *)
(* None is the string "None" for names and bond labels and the number      *)
(* NoLabel for atom labels.  A text line is modelled as the sequence of    *)
(* its whitespace separated fields (tokens).                               *)
(***************************************************************************)
EXTENDS Integers, Sequences, FiniteSets, TLC

VARIABLES
    \* ---- main(): the batch run
    species_file,       \* the species dictionary: named blocks of lines
    reactions,          \* data['reactions']: the reaction records
    species,            \* dict name -> (g, nx graph), in insertion order
    atom_count_species_names_map,
    output,             \* output['species'], output['reactions']
    idx,                \* reaction records whose loop iteration completed
    pc,                 \* position of the run / of the function under study:
                        \* "load", "reactions", "done", or "load_raised" /
                        \* "reaction_raised" once an exception ended the run
    err,                \* the exception that ended the run ("" when none)
    stdout,             \* the [WARN] lines printed so far
    loc,                \* locals of the last completed loop iteration
    written,            \* what json.dump wrote (<<>> until it ran)
    \* ---- adjlist_to_graph under study
    adjlist, graph,
    \* ---- get_label_filtered_isomorphisms under study
    g1, g2, valid_isomorphisms,
    \* ---- recurse_species_mappings under study
    species_mappings, results

vars == <<species_file, reactions, species, atom_count_species_names_map,
          output, idx, pc, err, stdout, loc, written, adjlist, graph,
          g1, g2, valid_isomorphisms, species_mappings, results>>

mainVars == <<species_file, reactions, species, atom_count_species_names_map,
              output, idx, stdout, loc, written>>
adjVars  == <<adjlist, graph>>
isoVars  == <<g1, g2, valid_isomorphisms>>
combVars == <<species_mappings, results>>

-----------------------------------------------------------------------------
(* Bounds of the model *)

MaxReactions == 2
MaxAtoms == 2
MaxBonds == 2
MaxNodes == 3
MaxComponents == 3
MaxIsos == 3

NoLabel == -1
None == "None"

-----------------------------------------------------------------------------
(* Generic helpers *)

Range(s) == {s[i] : i \in 1..Len(s)}

RECURSIVE SeqsUpTo(_, _)
\* all sequences over S of length at most n
SeqsUpTo(S, n) ==
    IF n = 0 THEN {<<>>}
    ELSE LET shorter == SeqsUpTo(S, n - 1)
         IN shorter \cup {Append(q, x) : q \in {r \in shorter : Len(r) = n - 1}, x \in S}

RECURSIVE Flatten(_)
Flatten(ss) == IF ss = <<>> THEN <<>> ELSE Head(ss) \o Flatten(Tail(ss))

-----------------------------------------------------------------------------
(* Lines as token sequences *)

Tok(k, n, s) == [k |-> k, n |-> n, s |-> s]
TNum(n)      == Tok("num", n, "")
TStar(n)     == Tok("star", n, "")      \* "*<n>"; n = NoLabel is a bare "*"
TElem(e)     == Tok("elem", 0, e)
TU(n)        == Tok("u", n, "")
TP(n)        == Tok("p", n, "")
TC(n)        == Tok("c", n, "")
TBond(n, o)  == Tok("bond", n, o)       \* "{n,o}"
TJunk        == Tok("junk", 0, "?")

\* positions of the fields of a line, following the regular expression
StarAt(s)  == Len(s) >= 2 /\ s[2].k = "star"
ElemPos(s) == IF StarAt(s) THEN 3 ELSE 2
PairsAt(s) == Len(s) >= ElemPos(s) + 2 /\ s[ElemPos(s) + 2].k = "p"
ChargePos(s) == IF PairsAt(s) THEN ElemPos(s) + 3 ELSE ElemPos(s) + 2
ChargeAt(s) == Len(s) >= ChargePos(s) /\ s[ChargePos(s)].k = "c"
BondPos(s) == IF ChargeAt(s) THEN ChargePos(s) + 1 ELSE ChargePos(s)

\* re.match(pattern, s.strip()): number, optional *label (a bare "*" is not
\* followed by a word boundary and does not match), element, u<n>, optional
\* p<n>, optional c<n>, bond clauses.
pattern_match(s) ==
    /\ Len(s) >= ElemPos(s) + 1
    /\ s[1].k = "num"
    /\ (StarAt(s) => s[2].n >= 0)
    /\ s[ElemPos(s)].k = "elem"
    /\ s[ElemPos(s) + 1].k = "u"
    /\ \A j \in BondPos(s)..Len(s) : s[j].k = "bond"

\* the dictionary returned for a line that matches
parse_atom_definition(s) ==
    [number   |-> s[1].n,
     label    |-> IF StarAt(s) THEN s[2].n ELSE NoLabel,
     element  |-> s[ElemPos(s)].s,
     unpaired |-> s[ElemPos(s) + 1].n,
     pairs    |-> IF PairsAt(s) THEN s[ElemPos(s) + 2].n ELSE NoLabel,
     charge   |-> IF ChargeAt(s) THEN s[ChargePos(s)].n ELSE NoLabel,
     bonds    |-> [j \in 1..(Len(s) + 1 - BondPos(s)) |->
                      <<s[BondPos(s) + j - 1].n, s[BondPos(s) + j - 1].s>>]]

-----------------------------------------------------------------------------
(* Graph builder *)

EmptyGraph ==
    [adjacencyMatrix |-> <<>>, edgeLabels |-> <<>>, nodeLabels |-> <<>>, nodeIds |-> <<>>]

\* id_map = {int(x['number']): i ...}: the last atom with a number wins
id_map_has(atoms, num) == \E i \in 1..Len(atoms) : atoms[i].number = num
id_map(atoms, num) ==
    CHOOSE i \in 1..Len(atoms) :
        /\ atoms[i].number = num
        /\ \A j \in 1..Len(atoms) : atoms[j].number = num => j <= i

\* the bonds of atom i that resolve to position j, in the order written
BondsTo(atoms, i, j) ==
    SelectSeq(atoms[i].bonds, LAMBDA b : id_map(atoms, b[1]) = j)

\* lines 48-51: each bond clause of atom i sets cell [i][id_map[bond[0]]] and
\* nothing else; a later clause for the same cell overwrites the label
build_cells(atoms) ==
    LET n == Len(atoms)
    IN [adjacencyMatrix |-> [i \in 1..n |-> [j \in 1..n |->
                                IF BondsTo(atoms, i, j) # <<>> THEN 1 ELSE 0]],
        edgeLabels |-> [i \in 1..n |-> [j \in 1..n |->
                                LET bs == BondsTo(atoms, i, j)
                                IN IF bs # <<>> THEN bs[Len(bs)][2] ELSE None]]]

\* lines 41-52 on the parsed atoms: [err, g]
graph_of_atoms(atoms) ==
    IF \E i \in 1..Len(atoms) : \E b \in Range(atoms[i].bonds) : ~id_map_has(atoms, b[1])
    THEN [err |-> "KeyError: id_map", g |-> EmptyGraph]
    ELSE [err |-> "",
          g |-> [adjacencyMatrix |-> build_cells(atoms).adjacencyMatrix,
                 edgeLabels |-> build_cells(atoms).edgeLabels,
                 nodeLabels |-> [i \in 1..Len(atoms) |-> atoms[i].element],
                 nodeIds |-> [i \in 1..Len(atoms) |-> atoms[i].label]]]

\* adjlist_to_graph: [err, g]; err names the exception raised, "" when none
adjlist_to_graph(lines) ==
    IF \E i \in 1..Len(lines) : ~pattern_match(lines[i])
    THEN [err |-> "ValueError: Invalid atom definition", g |-> EmptyGraph]
    ELSE graph_of_atoms([i \in 1..Len(lines) |-> parse_atom_definition(lines[i])])

-----------------------------------------------------------------------------
(* Component decomposer *)

get_subgraph(gr, indices) ==
    LET k == Len(indices)
    IN [adjacencyMatrix |-> [a \in 1..k |-> [b \in 1..k |->
                                gr.adjacencyMatrix[indices[a]][indices[b]]]],
        edgeLabels |-> [a \in 1..k |-> [b \in 1..k |->
                                gr.edgeLabels[indices[a]][indices[b]]]],
        nodeLabels |-> [a \in 1..k |-> gr.nodeLabels[indices[a]]],
        nodeIds |-> [a \in 1..k |-> gr.nodeIds[indices[a]]]]

\* directed=False: a nonzero cell in either direction joins two nodes
Linked(adj, i, j) == adj[i][j] # 0 \/ adj[j][i] # 0

RECURSIVE Reach(_, _)
Reach(adj, S) ==
    LET T == S \cup {j \in 1..Len(adj) : \E i \in S : Linked(adj, i, j)}
    IN IF T = S THEN S ELSE Reach(adj, T)

RECURSIVE SortedSeq(_)
\* the members of a set of integers in increasing order
SortedSeq(S) ==
    IF S = {} THEN <<>>
    ELSE LET m == CHOOSE x \in S : \A y \in S : x <= y
         IN <<m>> \o SortedSeq(S \ {m})

RECURSIVE ComponentsFrom(_, _)
\* components in the order of their smallest node, each in increasing order
ComponentsFrom(adj, left) ==
    IF left = {} THEN <<>>
    ELSE LET m == CHOOSE x \in left : \A y \in left : x <= y
             c == Reach(adj, {m})
         IN <<SortedSeq(c)>> \o ComponentsFrom(adj, left \ c)

\* get_component_subgraphs: [err, subs].  csr_array of the empty list is not
\* an N x N matrix and scipy's connected_components rejects it (ValueError).
get_component_subgraphs(gr) ==
    IF Len(gr.adjacencyMatrix) = 0
    THEN [err |-> "ValueError: connected_components", subs |-> <<>>]
    ELSE LET comps == ComponentsFrom(gr.adjacencyMatrix, 1..Len(gr.adjacencyMatrix))
         IN [err |-> "",
             subs |-> [c \in 1..Len(comps) |-> get_subgraph(gr, comps[c])]]

-----------------------------------------------------------------------------
(* networkx graphs and the isomorphism matcher *)

\* get_nx_graph: nodes 1..n with label and id, and one edge per cell of the
\* upper triangle that holds 1, labelled from the same cell
get_nx_graph(gr) ==
    LET n == Len(gr.adjacencyMatrix)
        E == {e \in (1..n) \X (1..n) : e[1] < e[2] /\ gr.adjacencyMatrix[e[1]][e[2]] = 1}
    IN [n |-> Len(gr.nodeLabels),
        label |-> gr.nodeLabels,
        id |-> gr.nodeIds,
        edges |-> E,
        elabel |-> [e \in E |-> gr.edgeLabels[e[1]][e[2]]]]

has_edge(G, u, v) == <<u, v>> \in G.edges \/ <<v, u>> \in G.edges
edge_label(G, u, v) == IF <<u, v>> \in G.edges THEN G.elabel[<<u, v>>] ELSE G.elabel[<<v, u>>]

\* g.edges() reports each edge once, in the order the edges were added
edges_in_order(G) ==
    LET key(e) == e[1] * (G.n + 1) + e[2]
        ks == SortedSeq({key(e) : e \in G.edges})
    IN [i \in 1..Len(ks) |-> CHOOSE e \in G.edges : key(e) = ks[i]]

\* GraphMatcher(G1, G2).isomorphisms_iter(): VF2 with test "graph".  match()
\* yields the core mapping once it holds len(G2) pairs; every pair it adds passes
\* the feasibility rules (mapped neighbours correspond, equal numbers of
\* neighbours in the terminal sets and outside them).  It makes no comparison of
\* the two node counts, so what it yields is every mapping of a set D of G1's
\* nodes onto G2's nodes that is an isomorphism of the subgraph on D and that no
\* edge leaves: all of G1 when the counts are equal.
isomorphisms_iter(G1, G2) ==
    UNION { { m \in [D -> 1..G2.n] :
                /\ \A a, b \in D : a # b => m[a] # m[b]
                /\ \A a, b \in D : has_edge(G1, a, b) <=> has_edge(G2, m[a], m[b]) }
            : D \in { X \in SUBSET (1..G1.n) :
                        /\ Cardinality(X) = G2.n
                        /\ \A a \in X, b \in (1..G1.n) \ X : ~has_edge(G1, a, b) } }

\* the node_match test of lines 90-93
node_match(G1, G2, iso) == \A n1 \in DOMAIN iso : G1.label[n1] = G2.label[iso[n1]]

RECURSIVE edge_scan(_, _, _, _)
\* lines 96-106 over the edges es of g1: "ok", "reject" or "KeyError"
edge_scan(G1, G2, iso, es) ==
    IF es = <<>> THEN "ok"
    ELSE LET u == Head(es)[1]
             v == Head(es)[2]
         IN IF u \notin DOMAIN iso \/ v \notin DOMAIN iso THEN "KeyError"
            ELSE IF ~has_edge(G2, iso[u], iso[v]) THEN "reject"
            ELSE IF edge_label(G1, u, v) # edge_label(G2, iso[u], iso[v]) THEN "reject"
            ELSE edge_scan(G1, G2, iso, Tail(es))

\* a mapping as a number, to list mappings in a fixed order (the order in
\* which VF2 yields them is not modelled; no result depends on it)
iso_key(G1, G2, iso) ==
    LET RECURSIVE k(_)
        k(i) == IF i = 0 THEN 0
                ELSE (IF i \in DOMAIN iso THEN iso[i] ELSE 0) + (G2.n + 1) * k(i - 1)
    IN k(G1.n)

iso_list(G1, G2, S) ==
    LET ks == SortedSeq({iso_key(G1, G2, m) : m \in S})
    IN [i \in 1..Len(ks) |-> CHOOSE m \in S : iso_key(G1, G2, m) = ks[i]]

\* get_label_filtered_isomorphisms: [err, isos]
get_label_filtered_isomorphisms(G1, G2) ==
    LET cand == {m \in isomorphisms_iter(G1, G2) : node_match(G1, G2, m)}
        es == edges_in_order(G1)
    IN IF \E m \in cand : edge_scan(G1, G2, m, es) = "KeyError"
       THEN [err |-> "KeyError: iso", isos |-> <<>>]
       ELSE [err |-> "",
             isos |-> iso_list(G1, G2, {m \in cand : edge_scan(G1, G2, m, es) = "ok"})]

-----------------------------------------------------------------------------
(* Species dictionary and species index (main, lines 124-150) *)

\* lines of the species file: a blank line is <<>>, a name line and a
\* multiplicity line are single tokens
TName(s) == <<Tok("name", 0, s)>>
TMultiplicity(n) == <<Tok("multiplicity", n, "")>>

HasSpecies(sp, name) == \E i \in 1..Len(sp) : sp[i].name = name
SpeciesNamed(sp, name) == sp[CHOOSE i \in 1..Len(sp) : sp[i].name = name]

\* species[last_name] = (g, get_nx_graph(g)): a dict keeps a key's first place
species_put(sp, name, g) ==
    LET e == [name |-> name, g |-> g, nx |-> get_nx_graph(g)]
    IN IF HasSpecies(sp, name)
       THEN [i \in 1..Len(sp) |-> IF sp[i].name = name THEN e ELSE sp[i]]
       ELSE Append(sp, e)

RECURSIVE read_species(_, _, _, _)
RECURSIVE close_block(_, _, _, _)

\* lines 132-135 at the blank line that ends a block, r being what
\* adjlist_to_graph gave for its rows
close_block(rest, last_name, r, sp) ==
    IF r.err # "" THEN [err |-> r.err, species |-> sp]
    ELSE read_species(rest, None, <<>>, species_put(sp, last_name, r.g))

\* the loop of lines 129-140 over the remaining lines: [err, species]
read_species(lines, last_name, last_rows, sp) ==
    IF lines = <<>> THEN [err |-> "", species |-> sp]
    ELSE LET line == Head(lines)
         IN IF line = <<>>
            THEN IF last_name # None
                 THEN close_block(Tail(lines), last_name, adjlist_to_graph(last_rows), sp)
                 ELSE read_species(Tail(lines), last_name, last_rows, sp)
            ELSE IF last_name = None
                 THEN read_species(Tail(lines), line[1].s, last_rows, sp)
            ELSE IF line[1].k # "multiplicity"
                 THEN read_species(Tail(lines), last_name, Append(last_rows, line), sp)
            ELSE read_species(Tail(lines), last_name, last_rows, sp)

\* lines 143-150: species names by atom count, in the order of the dict
build_atom_count_species_names_map(sp) ==
    LET count(i) == Len(sp[i].g.nodeLabels)
        counts == {count(i) : i \in 1..Len(sp)}
        names == [i \in 1..Len(sp) |-> sp[i].name]
    IN [c \in counts |->
           SelectSeq(names, LAMBDA nm : Len(SpeciesNamed(sp, nm).g.nodeLabels) = c)]

-----------------------------------------------------------------------------
(* Matching the components of a reaction side (main, lines 174-199) *)

NoMatch == [err |-> "", name |-> None, maps |-> <<>>, warns |-> <<>>]

\* match_step without the continue: the later species replaces the kept one
match_step_no_continue(side, comp, acc, name, isomorphisms) ==
    IF acc.name # None /\ acc.name # name
    THEN [acc EXCEPT !.warns = Append(@, [side |-> side, kept |-> acc.name,
                                           name |-> name, subgraph |-> comp]),
                     !.name = name, !.maps = @ \o isomorphisms]
    ELSE [acc EXCEPT !.name = name, !.maps = @ \o isomorphisms]

\* lines 182-188 (193-199): what one species with isomorphisms does to the
\* component's name, isomorphism list and the printed warnings
match_step(side, comp, acc, name, isomorphisms) ==
    IF acc.name # None /\ acc.name # name
    THEN [acc EXCEPT !.warns = Append(@, [side |-> side, kept |-> acc.name,
                                           name |-> name, subgraph |-> comp])]
    ELSE [acc EXCEPT !.name = name, !.maps = @ \o isomorphisms]

RECURSIVE match_names(_, _, _, _, _)
RECURSIVE match_name(_, _, _, _, _, _)

\* lines 181-188 for the first name of todo, r being what
\* get_label_filtered_isomorphisms gave for it
match_name(side, comp, sp, todo, acc, r) ==
    IF r.err # "" THEN [acc EXCEPT !.err = r.err]
    ELSE IF Len(r.isos) > 0
         THEN match_names(side, comp, sp, Tail(todo),
                          match_step(side, comp, acc, Head(todo), r.isos))
         ELSE match_names(side, comp, sp, Tail(todo), acc)

\* the inner loop over the species names of the component's atom count
match_names(side, comp, sp, todo, acc) ==
    IF todo = <<>> THEN acc
    ELSE match_name(side, comp, sp, todo, acc,
                    get_label_filtered_isomorphisms(get_nx_graph(comp),
                                                    SpeciesNamed(sp, Head(todo)).nx))

\* one component: KeyError when no species has its atom count
match_component(side, comp, sp, acmap) ==
    LET atom_count == Len(comp.nodeLabels)
    IN IF atom_count \notin DOMAIN acmap
       THEN [NoMatch EXCEPT !.err = "KeyError: atom_count"]
       ELSE match_names(side, comp, sp, acmap[atom_count], NoMatch)

\* the name, isomorphism list and warnings of one more component
side_add(acc, r) ==
    [err |-> r.err,
     names |-> Append(acc.names, r.name),
     mappings |-> Append(acc.mappings, r.maps),
     warns |-> acc.warns \o r.warns]

RECURSIVE match_side(_, _, _, _, _)
\* the outer loop over the components: [err, names, mappings, warns]
match_side(side, subs, sp, acmap, acc) ==
    IF Len(acc.names) = Len(subs) \/ acc.err # "" THEN acc
    ELSE match_side(side, subs, sp, acmap,
             side_add(acc, match_component(side, subs[Len(acc.names) + 1], sp, acmap)))

NoSide == [err |-> "", names |-> <<>>, mappings |-> <<>>, warns |-> <<>>]

-----------------------------------------------------------------------------
(* Combinations (main, lines 201-209) *)

RECURSIVE recurse_species_mappings(_, _, _, _)
RECURSIVE recurse_range(_, _, _, _, _)

\* the for loop leaving out the last isomorphism of the component
recurse_range_short(sm, index, path, i, res) ==
    IF i >= Len(sm[index + 1]) - 1 THEN res
    ELSE recurse_range(sm, index, path, i + 1,
                       recurse_species_mappings(sm, index + 1, Append(path, i), res))

\* the for loop of lines 205-206, from i on
recurse_range(sm, index, path, i, res) ==
    IF i >= Len(sm[index + 1]) THEN res
    ELSE recurse_range(sm, index, path, i + 1,
                       recurse_species_mappings(sm, index + 1, Append(path, i), res))

\* index and the members of a path are Python's 0-based indices
recurse_species_mappings(sm, index, path, res) ==
    IF index = Len(sm) THEN Append(res, path)
    ELSE recurse_range(sm, index, path, 0, res)

-----------------------------------------------------------------------------
(* Reconciliation (main, lines 211-227) *)

\* lines 215-219: the entries of the labelled reactant atoms, component by
\* component; node indices are written 0-based as in the program's output
reactant_entries(subs, names, maps, comb) ==
    Flatten([i \in 1..Len(comb) |->
        LET isomorphism == maps[i][comb[i] + 1]
            ids == subs[i].nodeIds
            labelled == SelectSeq([j \in 1..Len(ids) |-> j], LAMBDA j : ids[j] # NoLabel)
        IN [x \in 1..Len(labelled) |->
               <<ids[labelled[x]], names[i], isomorphism[labelled[x]] - 1, None, NoLabel>>]])

\* lines 220-226 as the updates (label, product name, product index) to apply
product_updates(subs, names, maps, comb) ==
    Flatten([i \in 1..Len(comb) |->
        LET isomorphism == maps[i][comb[i] + 1]
            ids == subs[i].nodeIds
            labelled == SelectSeq([j \in 1..Len(ids) |-> j], LAMBDA j : ids[j] # NoLabel)
        IN [x \in 1..Len(labelled) |->
               <<ids[labelled[x]], names[i], isomorphism[labelled[x]] - 1>>]])

RECURSIVE apply_updates(_, _)
\* lines 224-226: the first entry with the label is filled in; [...][0] raises
\* IndexError when no entry has the label
apply_updates(mapping, ups) ==
    IF ups = <<>> THEN [err |-> "", mapping |-> mapping]
    ELSE LET u == Head(ups)
             hits == {k \in 1..Len(mapping) : mapping[k][1] = u[1]}
         IN IF hits = {} THEN [err |-> "IndexError: _id_mapping", mapping |-> mapping]
            ELSE LET k == CHOOSE h \in hits : \A h2 \in hits : h <= h2
                 IN apply_updates(
                        [mapping EXCEPT ![k] = <<@[1], @[2], @[3], u[2], u[3]>>],
                        Tail(ups))

\* one (reactant combination, product combination) pair: [err, mapping]
build_mapping(L, rc, pcomb) ==
    apply_updates(
        reactant_entries(L.reactants_subgraphs, L.reactant_species_names,
                         L.reactant_species_mappings, rc),
        product_updates(L.products_subgraphs, L.product_species_names,
                        L.product_species_mappings, pcomb))

\* a list in place of the set: every candidate map is kept
list_append(mappings, m) == Append(mappings, m)

\* mappings.add(frozenset(...)): a set holds equal members once.  The set is
\* kept as a list in the order of insertion; the order in which Python
\* iterates it is not modelled.
set_add(mappings, m) ==
    IF \E i \in 1..Len(mappings) : mappings[i] = m THEN mappings ELSE Append(mappings, m)

\* line 227 for a pair whose mapping was built without an exception
mappings_add(acc, r) ==
    [err |-> r.err,
     mappings |-> IF r.err = "" THEN set_add(acc.mappings, Range(r.mapping))
                  ELSE acc.mappings]

RECURSIVE build_mappings(_, _, _)
\* lines 211-227 over the pairs numbered from n on, reactants outermost
build_mappings(L, n, acc) ==
    LET nr == Len(L.reactant_combinations)
        np == Len(L.product_combinations)
    IN IF n >= nr * np \/ acc.err # "" THEN acc
       ELSE build_mappings(L, n + 1,
                mappings_add(acc, build_mapping(L, L.reactant_combinations[(n \div np) + 1],
                                                L.product_combinations[(n % np) + 1])))

-----------------------------------------------------------------------------
(* Values of the variables a specification does not use *)

NoLocals ==
    [err |-> "",
     reactants_graph |-> EmptyGraph, products_graph |-> EmptyGraph,
     reactants_subgraphs |-> <<>>, products_subgraphs |-> <<>>,
     reactant_species_names |-> <<>>, reactant_species_mappings |-> <<>>,
     product_species_names |-> <<>>, product_species_mappings |-> <<>>,
     reactant_combinations |-> <<>>, product_combinations |-> <<>>,
     mappings |-> <<>>,
     warns |-> <<>>]

MainIdle ==
    /\ species_file = <<>>
    /\ reactions = <<>>
    /\ species = <<>>
    /\ atom_count_species_names_map = <<>>
    /\ output = [species |-> <<>>, reactions |-> <<>>]
    /\ idx = 0
    /\ stdout = <<>>
    /\ loc = NoLocals
    /\ written = [species |-> <<>>, reactions |-> <<>>]

AdjIdle == adjlist = <<>> /\ graph = EmptyGraph
IsoIdle == g1 = get_nx_graph(EmptyGraph) /\ g2 = get_nx_graph(EmptyGraph) /\ valid_isomorphisms = <<>>
CombIdle == species_mappings = <<>> /\ results = <<>>

-----------------------------------------------------------------------------
(* The batch run (main) *)

\* the guard with the same key tested twice
has_both_blocks_same_key(reaction) == reaction.has_reactant /\ reaction.has_reactant

\* 'reactant' in reaction and 'product' in reaction
has_both_blocks(reaction) == reaction.has_reactant /\ reaction.has_product

\* [x.strip() for x in block.split('\n') if x.strip() != '']
block_lines(block) == SelectSeq(block, LAMBDA x : x # <<>>)

\* lines 161-166: the two graphs, or the first exception
with_graphs(reaction, rg, pg) ==
    [NoLocals EXCEPT
        !.err = IF ~reaction.has_reactant THEN "KeyError: 'reactant'"
                ELSE IF rg.err # "" THEN rg.err
                ELSE IF ~reaction.has_product THEN "KeyError: 'product'"
                ELSE pg.err,
        !.reactants_graph = rg.g,
        !.products_graph = pg.g]

\* lines 168-172: the component subgraphs of the two sides
with_subgraphs(st, rs, ps) ==
    [st EXCEPT
        !.err = IF rs.err # "" THEN rs.err ELSE ps.err,
        !.reactants_subgraphs = rs.subs,
        !.products_subgraphs = ps.subs]

decompose(st) ==
    IF st.err # "" THEN st
    ELSE with_subgraphs(st, get_component_subgraphs(st.reactants_graph),
                            get_component_subgraphs(st.products_graph))

\* lines 174-199: the reactant components are matched first, and the product
\* components only if that raised nothing
with_matches(st, rm, pm) ==
    IF rm.err # ""
    THEN [st EXCEPT !.err = rm.err, !.warns = rm.warns]
    ELSE [st EXCEPT
            !.err = pm.err,
            !.warns = rm.warns \o pm.warns,
            !.reactant_species_names = rm.names,
            !.reactant_species_mappings = rm.mappings,
            !.product_species_names = pm.names,
            !.product_species_mappings = pm.mappings]

match(st, sp, acmap) ==
    IF st.err # "" THEN st
    ELSE with_matches(st, match_side("Reactant", st.reactants_subgraphs, sp, acmap, NoSide),
                          match_side("Product", st.products_subgraphs, sp, acmap, NoSide))

\* lines 208-209
combine(st) ==
    IF st.err # "" THEN st
    ELSE [st EXCEPT
            !.reactant_combinations =
                recurse_species_mappings(st.reactant_species_mappings, 0, <<>>, <<>>),
            !.product_combinations =
                recurse_species_mappings(st.product_species_mappings, 0, <<>>, <<>>)]

\* lines 211-227
with_mappings(st, bm) == [st EXCEPT !.err = bm.err, !.mappings = bm.mappings]

reconcile(st) ==
    IF st.err # "" THEN st
    ELSE with_mappings(st, build_mappings(st, 0, [err |-> "", mappings |-> <<>>]))

\* the body of the loop for a record that is not skipped (lines 161-227): the
\* locals at its end, err naming the exception that ended it early
process_reaction(reaction, sp, acmap) ==
    reconcile(combine(match(decompose(
        with_graphs(reaction, adjlist_to_graph(block_lines(reaction.reactant)),
                              adjlist_to_graph(block_lines(reaction.product)))),
        sp, acmap)))

\* ---- the inputs of the run

Atom(n, l, e, bs) ==
    <<TNum(n)>> \o (IF l = NoLabel THEN <<>> ELSE <<TStar(l)>>) \o <<TElem(e), TU(0)>> \o bs

\* water, with the labels of O and of the two H
Water(lo, l2, l3) ==
    << <<TNum(1)>> \o (IF lo = NoLabel THEN <<>> ELSE <<TStar(lo)>>)
           \o <<TElem("O"), TU(0), TP(2), TC(0), TBond(2, "S"), TBond(3, "S")>>,
       Atom(2, l2, "H", <<TBond(1, "S")>>),
       Atom(3, l3, "H", <<TBond(1, "S")>>) >>

\* H2 on the atom numbers b+1, b+2, with the label of the first H
Hydrogen(b, l) ==
    << Atom(b + 1, l, "H", <<TBond(b + 2, "S")>>),
       Atom(b + 2, NoLabel, "H", <<TBond(b + 1, "S")>>) >>

\* a C-H fragment: two atoms, as no registered species
Methylidyne ==
    << Atom(1, NoLabel, "C", <<TBond(2, "S")>>), Atom(2, NoLabel, "H", <<TBond(1, "S")>>) >>

SpeciesFile ==
    <<TName("H2O"), TMultiplicity(1)>> \o Water(NoLabel, NoLabel, NoLabel) \o << <<>> >>
    \o <<TName("H2")>> \o Hydrogen(0, NoLabel) \o << <<>>, <<>> >>
    \o <<TName("H2_dup")>> \o Hydrogen(0, NoLabel) \o << <<>> >>

\* a dictionary whose second species has a line without the u field
SpeciesFileBad ==
    <<TName("H2O")>> \o Water(NoLabel, NoLabel, NoLabel) \o << <<>> >>
    \o <<TName("bad"), <<TNum(1), TElem("C")>>, <<>> >>

Reaction(i, hr, r, hp, p) ==
    [index |-> i, reaction |-> "A <=> B", reaction_family |-> "family",
     has_reactant |-> hr, reactant |-> r, has_product |-> hp, product |-> p]

ReactionCatalog ==
    { \* the label sits on O, which every automorphism fixes
      Reaction(1, TRUE, Water(1, NoLabel, NoLabel), TRUE, Water(1, NoLabel, NoLabel)),
      \* the label sits on one H on each side
      Reaction(2, TRUE, Water(NoLabel, 1, NoLabel), TRUE, Water(NoLabel, NoLabel, 1)),
      \* an unlabelled H2, which two species match
      Reaction(3, TRUE, Hydrogen(0, NoLabel), TRUE, Hydrogen(0, NoLabel)),
      \* records without a product block, without a reactant block
      Reaction(4, TRUE, Water(1, NoLabel, NoLabel), FALSE, <<>>),
      Reaction(5, FALSE, <<>>, TRUE, Hydrogen(0, NoLabel)),
      \* a bare "*" in the reactant block
      Reaction(6, TRUE, <<<<TNum(1), TStar(NoLabel), TElem("H"), TU(1)>>>>,
                  TRUE, Hydrogen(0, NoLabel)),
      \* a bond to an atom number that the product block does not hold
      Reaction(7, TRUE, Hydrogen(0, NoLabel),
                  TRUE, <<Atom(1, NoLabel, "H", <<TBond(2, "S")>>)>>),
      \* label 2 on the reactant side only
      Reaction(8, TRUE, Water(1, 2, NoLabel), TRUE, Water(1, NoLabel, NoLabel)),
      \* label 2 on the product side only
      Reaction(9, TRUE, Water(1, NoLabel, NoLabel), TRUE, Water(1, 2, NoLabel)),
      \* a reactant block without lines
      Reaction(10, TRUE, <<>>, TRUE, Hydrogen(0, NoLabel)),
      \* a component of a registered size that is no registered species
      Reaction(11, TRUE, Methylidyne, TRUE, Hydrogen(0, NoLabel)),
      \* a component of a size no species has
      Reaction(12, TRUE, <<Atom(1, NoLabel, "H", <<>>)>>, TRUE, Hydrogen(0, NoLabel)),
      \* two molecules on each side, with a blank line between them
      Reaction(13, TRUE, Water(1, NoLabel, NoLabel) \o << <<>> >> \o Hydrogen(3, 2),
                   TRUE, Water(1, NoLabel, NoLabel) \o Hydrogen(3, 2)) }

Init ==
    /\ species_file \in {SpeciesFile, SpeciesFileBad}
    /\ reactions \in SeqsUpTo(ReactionCatalog, MaxReactions)
    /\ species = <<>>
    /\ atom_count_species_names_map = <<>>
    /\ output = [species |-> <<>>, reactions |-> <<>>]
    /\ idx = 0
    /\ pc = "load"
    /\ err = ""
    /\ stdout = <<>>
    /\ loc = NoLocals
    /\ written = [species |-> <<>>, reactions |-> <<>>]
    /\ AdjIdle /\ IsoIdle /\ CombIdle

\* lines 119-150: read the species dictionary, fill output['species'] and
\* the species index
LoadSpecies ==
    /\ pc = "load"
    /\ LET r == read_species(species_file, None, <<>>, <<>>)
       IN IF r.err # ""
          THEN /\ pc' = "load_raised"
               /\ err' = r.err
               /\ UNCHANGED <<species, atom_count_species_names_map, output>>
          ELSE /\ pc' = "reactions"
               /\ err' = ""
               /\ species' = r.species
               /\ atom_count_species_names_map' =
                      build_atom_count_species_names_map(r.species)
               /\ output' = [output EXCEPT !.species =
                      [i \in 1..Len(r.species) |->
                          [name |-> r.species[i].name, g |-> r.species[i].g]]]
    /\ UNCHANGED <<species_file, reactions, idx, stdout, loc, written,
                   adjVars, isoVars, combVars>>

\* one iteration of the loop of lines 154-233
ProcessReaction ==
    /\ pc = "reactions"
    /\ idx < Len(reactions)
    /\ LET reaction == reactions[idx + 1]
       IN IF ~has_both_blocks(reaction)
          THEN /\ idx' = idx + 1
               /\ UNCHANGED <<pc, err, stdout, loc, output>>
          ELSE LET r == process_reaction(reaction, species, atom_count_species_names_map)
               IN /\ stdout' = stdout \o r.warns
                  /\ IF r.err # ""
                     THEN /\ pc' = "reaction_raised"
                          /\ err' = r.err
                          /\ UNCHANGED <<idx, loc, output>>
                     ELSE /\ idx' = idx + 1
                          /\ loc' = r
                          /\ output' = [output EXCEPT !.reactions = Append(@,
                                 [index |-> reaction.index,
                                  reaction |-> reaction.reaction,
                                  reaction_family |-> reaction.reaction_family,
                                  mappings |-> r.mappings])]
                          /\ UNCHANGED <<pc, err>>
    /\ UNCHANGED <<species_file, reactions, species, atom_count_species_names_map,
                   written, adjVars, isoVars, combVars>>

\* lines 235-236: json.dump(output, f) once the loop is over
WriteOutput ==
    /\ pc = "reactions"
    /\ idx = Len(reactions)
    /\ written' = output
    /\ pc' = "done"
    /\ UNCHANGED <<species_file, reactions, species, atom_count_species_names_map,
                   output, idx, err, stdout, loc, adjVars, isoVars, combVars>>

Next == LoadSpecies \/ ProcessReaction \/ WriteOutput

Spec == Init /\ [][Next]_vars

-----------------------------------------------------------------------------
(* recurse_species_mappings on bounded lists of isomorphism lists *)

\* only the lengths of the lists matter to the function; the isomorphisms
\* are stood for by their positions
InitComb ==
    /\ species_mappings \in SeqsUpTo({[j \in 1..m |-> j] : m \in 0..MaxIsos}, MaxComponents)
    /\ results = <<>>
    /\ pc = "input"
    /\ err = ""
    /\ MainIdle /\ AdjIdle /\ IsoIdle

Combine ==
    /\ pc = "input"
    /\ results' = recurse_species_mappings(species_mappings, 0, <<>>, <<>>)
    /\ pc' = "done"
    /\ UNCHANGED <<species_mappings, err, mainVars, adjVars, isoVars>>

NextComb == Combine

SpecComb == InitComb /\ [][NextComb]_vars

-----------------------------------------------------------------------------
(* adjlist_to_graph on bounded blocks of lines *)

BondOrders == {"S", "D"}

\* lines "<number> C u0 {..} {..}", whose bonds name another atom number
\* (possibly one absent from the block), and a line without the mandatory u field
AdjLinesOf(n) ==
    {<<TNum(n), TElem("C"), TU(0)>> \o bs :
        bs \in SeqsUpTo({TBond(b, o) : b \in (1..(MaxAtoms + 1)) \ {n}, o \in BondOrders},
                        MaxBonds)}

AdjLines == UNION {AdjLinesOf(n) : n \in 1..MaxAtoms} \cup {<<TNum(1), TElem("C")>>}

InitAdj ==
    /\ adjlist \in SeqsUpTo(AdjLines, MaxAtoms)
    /\ graph = EmptyGraph
    /\ pc = "input"
    /\ err = ""
    /\ MainIdle /\ IsoIdle /\ CombIdle

BuildGraph ==
    /\ pc = "input"
    /\ LET r == adjlist_to_graph(adjlist)
       IN /\ graph' = r.g
          /\ err' = r.err
          /\ pc' = IF r.err = "" THEN "done" ELSE "raised"
    /\ UNCHANGED <<adjlist, mainVars, isoVars, combVars>>

NextAdj == BuildGraph

SpecAdj == InitAdj /\ [][NextAdj]_vars

-----------------------------------------------------------------------------
(* get_label_filtered_isomorphisms on bounded pairs of molecule graphs *)

Elements == {"C", "H"}

\* the molecule graph over n nodes with node labels nl and the labelled
\* undirected edges given by up (None: no edge)
MoleculeGraphOf(n, nl, up) ==
    LET cell(i, j) == IF i = j THEN None
                      ELSE IF i < j THEN up[<<i, j>>] ELSE up[<<j, i>>]
    IN [adjacencyMatrix |-> [i \in 1..n |-> [j \in 1..n |->
                                IF cell(i, j) = None THEN 0 ELSE 1]],
        edgeLabels |-> [i \in 1..n |-> [j \in 1..n |-> cell(i, j)]],
        nodeLabels |-> nl,
        nodeIds |-> [i \in 1..n |-> NoLabel]]

MoleculeGraphs(maxn) ==
    UNION { { MoleculeGraphOf(n, nl, up) :
                nl \in [1..n -> Elements],
                up \in [{e \in (1..n) \X (1..n) : e[1] < e[2]} -> BondOrders \cup {None}] }
            : n \in 1..maxn }

InitIso ==
    /\ g1 \in {get_nx_graph(m) : m \in MoleculeGraphs(MaxNodes)}
    /\ g2 \in {get_nx_graph(m) : m \in MoleculeGraphs(MaxNodes)}
    /\ valid_isomorphisms = <<>>
    /\ pc = "input"
    /\ err = ""
    /\ MainIdle /\ AdjIdle /\ CombIdle

Match ==
    /\ pc = "input"
    /\ LET r == get_label_filtered_isomorphisms(g1, g2)
       IN /\ valid_isomorphisms' = r.isos
          /\ err' = r.err
          /\ pc' = IF r.err = "" THEN "done" ELSE "raised"
    /\ UNCHANGED <<g1, g2, mainVars, adjVars, combVars>>

NextIso == Match

SpecIso == InitIso /\ [][NextIso]_vars

-----------------------------------------------------------------------------
(* Properties of the graph builder (under SpecAdj) *)

\* C2: every graph adjlist_to_graph constructs has a symmetric adjacency
\* matrix with zero diagonal and a symmetric edge-label matrix, and a label is
\* defined exactly where the adjacency matrix holds 1.
C2_SymmetricGraph ==
    pc = "done" =>
        \A i, j \in 1..Len(graph.adjacencyMatrix) :
            /\ graph.adjacencyMatrix[i][j] = graph.adjacencyMatrix[j][i]
            /\ graph.adjacencyMatrix[i][i] = 0
            /\ graph.edgeLabels[i][j] = graph.edgeLabels[j][i]
            /\ (graph.edgeLabels[i][j] # None <=> graph.adjacencyMatrix[i][j] = 1)

-----------------------------------------------------------------------------
(* Properties of the matcher (under SpecIso) *)

\* the bijections between the node sets that preserve element labels and map
\* edges to edges of equal bond order, in both directions
LabelPreservingBijections(G1, G2) ==
    {m \in [1..G1.n -> 1..G2.n] :
        /\ \A a, b \in 1..G1.n : a # b => m[a] # m[b]
        /\ \A c \in 1..G2.n : \E a \in 1..G1.n : m[a] = c
        /\ \A a \in 1..G1.n : G1.label[a] = G2.label[m[a]]
        /\ \A a, b \in 1..G1.n : a < b =>
              (has_edge(G1, a, b) <=>
                  (has_edge(G2, m[a], m[b])
                      /\ edge_label(G1, a, b) = edge_label(G2, m[a], m[b])))}

\* C1: the matcher returns exactly the label-preserving bijections between
\* the two node sets, each once, and nothing when the node counts differ.
C1_ExactlyTheLabelPreservingBijections ==
    pc # "input" =>
        /\ err = ""
        /\ Range(valid_isomorphisms) = LabelPreservingBijections(g1, g2)
        /\ \A i, j \in 1..Len(valid_isomorphisms) :
              valid_isomorphisms[i] = valid_isomorphisms[j] => i = j
        /\ (g1.n # g2.n => valid_isomorphisms = <<>>)

-----------------------------------------------------------------------------
(* Properties of recurse_species_mappings (under SpecComb) *)

RECURSIVE ProductOfLengths(_)
ProductOfLengths(sm) ==
    IF sm = <<>> THEN 1 ELSE Len(Head(sm)) * ProductOfLengths(Tail(sm))

\* C5: the side-combinations are m_1 * ... * m_k in number, each picks one
\* isomorphism index i in 0..m_i-1 for every component, and none is repeated.
C5_CrossProduct ==
    pc = "done" =>
        /\ Len(results) = ProductOfLengths(species_mappings)
        /\ \A n \in 1..Len(results) :
              /\ Len(results[n]) = Len(species_mappings)
              /\ \A i \in 1..Len(species_mappings) :
                    results[n][i] \in 0..(Len(species_mappings[i]) - 1)
        /\ \A n, m \in 1..Len(results) : results[n] = results[m] => n = m

\* two components or more with two isomorphisms or more each, combined
C5_Witness ==
    /\ pc = "done"
    /\ Len(species_mappings) >= 2
    /\ \A i \in 1..Len(species_mappings) : Len(species_mappings[i]) >= 2
    /\ Len(results) >= 4

\* C10: a side with zero components has no side-combinations (so that the
\* reaction's mappings list is empty).
C10_NoCombinationsForZeroComponents ==
    (pc = "done" /\ Len(species_mappings) = 0) => results = <<>>

-----------------------------------------------------------------------------
(* Properties of the batch run (under Spec) *)

Raised == pc \in {"load_raised", "reaction_raised"}

\* the record appended by the last completed iteration that was not skipped;
\* loc holds the locals of that iteration
Emitted == Len(output.reactions) > 0
LastRecord == output.reactions[Len(output.reactions)]

SideLabels(subs) == UNION {Range(subs[i].nodeIds) : i \in 1..Len(subs)} \ {NoLabel}

\* C3: every candidate map holds exactly one entry for each label of either
\* side, filled on the sides that carry the label, and building it never fails.
C3_OneEntryPerLabel ==
    /\ ~(Raised /\ err = "IndexError: _id_mapping")
    /\ Emitted =>
          \A m \in Range(LastRecord.mappings) :
              \A l \in SideLabels(loc.reactants_subgraphs) \cup SideLabels(loc.products_subgraphs) :
                  /\ Cardinality({e \in m : e[1] = l}) = 1
                  /\ \A e \in m : e[1] = l =>
                        /\ (e[2] # None <=> l \in SideLabels(loc.reactants_subgraphs))
                        /\ (e[4] # None <=> l \in SideLabels(loc.products_subgraphs))

\* C4: the emitted mappings list holds every candidate map of the reaction,
\* one per (reactant combination, product combination) pair, exactly once.
C4_DistinctMaps ==
    Emitted =>
        /\ \A i, j \in 1..Len(LastRecord.mappings) :
              LastRecord.mappings[i] = LastRecord.mappings[j] => i = j
        /\ Range(LastRecord.mappings) =
              {Range(build_mapping(loc, rc, pcomb).mapping) :
                  rc \in Range(loc.reactant_combinations),
                  pcomb \in Range(loc.product_combinations)}

\* several pairs gave the same non-empty map, which is emitted
C4_Witness ==
    /\ Emitted
    /\ Len(loc.reactant_combinations) * Len(loc.product_combinations)
          > Len(LastRecord.mappings)
    /\ \E i \in 1..Len(LastRecord.mappings) : LastRecord.mappings[i] # {}

\* the registered species, in registration order, to which the component has
\* a label-preserving isomorphism
MatchingSpecies(comp) ==
    SelectSeq(species, LAMBDA s : LabelPreservingBijections(get_nx_graph(comp), s.nx) # {})

ExpectedWarns(side, subs) ==
    Flatten([i \in 1..Len(subs) |->
        [k \in 1..(Len(MatchingSpecies(subs[i])) - 1) |->
            [side |-> side, kept |-> MatchingSpecies(subs[i])[1].name,
             name |-> MatchingSpecies(subs[i])[k + 1].name, subgraph |-> subs[i]]]])

FirstSpeciesKept(subs, names, maps) ==
    \A i \in 1..Len(subs) :
        LET ms == MatchingSpecies(subs[i])
        IN IF ms = <<>> THEN names[i] = None /\ maps[i] = <<>>
           ELSE /\ names[i] = ms[1].name
                /\ Range(maps[i]) = LabelPreservingBijections(get_nx_graph(subs[i]), ms[1].nx)
                /\ Len(maps[i]) = Cardinality(Range(maps[i]))

\* C6: a component that several species match keeps the first of them in
\* registration order and only the isomorphisms to it, and one warning naming
\* the kept and the competing species is printed for each later species; a
\* component that one species matches prints none.
C6_FirstSpeciesKept ==
    Emitted =>
        /\ FirstSpeciesKept(loc.reactants_subgraphs, loc.reactant_species_names,
                            loc.reactant_species_mappings)
        /\ FirstSpeciesKept(loc.products_subgraphs, loc.product_species_names,
                            loc.product_species_mappings)
        /\ loc.warns = ExpectedWarns("Reactant", loc.reactants_subgraphs)
                          \o ExpectedWarns("Product", loc.products_subgraphs)

\* a reaction with a component that two species match and one that one matches
C6_Witness ==
    /\ Emitted
    /\ \E i \in 1..Len(loc.reactants_subgraphs) :
          Len(MatchingSpecies(loc.reactants_subgraphs[i])) = 2
    /\ \E i \in 1..Len(loc.reactants_subgraphs) :
          Len(MatchingSpecies(loc.reactants_subgraphs[i])) = 1
    /\ loc.warns # <<>>

\* C7: a line that does not match the grammar, or a bond to an atom number
\* absent from the block, does not end the run.
C7_ParseFailureDoesNotEndTheRun ==
    ~(Raised /\ err \in {"ValueError: Invalid atom definition", "KeyError: id_map"})

\* C8: a component that matches no registered species does not end the run:
\* its name stays undefined, it has no isomorphisms, and the record is emitted.
C8_NoMatchDoesNotEndTheRun ==
    /\ ~(Raised /\ err = "KeyError: atom_count")
    /\ Emitted =>
          \A i \in 1..Len(loc.reactants_subgraphs) :
              MatchingSpecies(loc.reactants_subgraphs[i]) = <<>> =>
                  /\ loc.reactant_species_names[i] = None
                  /\ loc.reactant_species_mappings[i] = <<>>

\* C9: the emitted records are the records with both blocks among those the
\* loop has passed, in input order; a record without a block raises nothing;
\* and the run that reaches its end has passed every record.
C9_RecordsWithoutABlockAreSkipped ==
    /\ LET kept == SelectSeq(SubSeq(reactions, 1, idx),
                             LAMBDA r : r.has_reactant /\ r.has_product)
       IN /\ Len(output.reactions) = Len(kept)
          /\ \A i \in 1..Len(kept) :
                /\ output.reactions[i].index = kept[i].index
                /\ output.reactions[i].reaction = kept[i].reaction
                /\ output.reactions[i].reaction_family = kept[i].reaction_family
    /\ pc = "reaction_raised" =>
          reactions[idx + 1].has_reactant /\ reactions[idx + 1].has_product
    /\ pc = "done" => idx = Len(reactions) /\ written = output

\* a record without a block was passed, and the record after it is emitted
C9_Witness ==
    /\ idx >= 2
    /\ ~(reactions[1].has_reactant /\ reactions[1].has_product)
    /\ reactions[2].has_reactant /\ reactions[2].has_product
    /\ Len(output.reactions) = 1
    /\ output.reactions[1].index = reactions[2].index

=============================================================================
